---- MODULE Spec2Model ----
(***************************************************************************)
(* Model of Rlueer/Crypto, "Programming project2":                         *)
(*   - ascon-code/ascon_modes.py, gift-cofb/gift_cofb_modes.py:            *)
(*     PKCS7 padding and the CBC / OFB chaining modes;                     *)
(*   - ascon-code/changes.py, gift-cofb/changes.py:                        *)
(*     create / verify of the signature block appended to a file.         *)
(* Byte strings are sequences of integers 0..255.  Offsets and slices use  *)
(* Python's 0-based, end-exclusive conventions through Slice.              *)
(* The cipher and hash modules (ascon.py, gift_cofb.py, utils.py) are not  *)
(* part of the sources; they are modelled as ideal primitives.             *)
(***************************************************************************)
EXTENDS Integers, Sequences, FiniteSets, TLC

VARIABLES
    impl,     \* "ascon" | "gift": which implementation the run exercises
    key,      \* modes: key handed to the mode functions
    iv,       \* modes: IV handed to the mode functions
    buf,      \* modes: the byte string handed to the next call
    src,      \* modes: how buf was obtained ("input" or the producing op)
    orig,     \* modes: the input of the call that produced buf
    mres,     \* modes: outcome of the last call
    exists,   \* signing: os.path.exists(filepath)
    file,     \* signing: the bytes stored at filepath
    hashed,   \* ideal hash: the inputs hashed so far, in order of first use
    sealed,   \* ideal AEAD: the (key, nonce, ad, plaintext) encrypted so far
    clock,    \* signing: ticks of datetime.now()
    rng,      \* signing: number of get_random_bytes draws so far
    sigs,     \* history: one record per successful create call
    tamper,   \* history: 1-based position changed since the last create, or 0
    pre,      \* history: the file as it was before the last call
    sres,     \* signing: outcome of the last create / verify call
    seen,     \* signing: the frame the last verify call read from the file
    foreign,  \* history: the block another program appended, if any
    edit,     \* history: what the owner did to the signed file afterwards
    pending   \* concurrent signing: what each caller has read and not yet signed

mvars == <<impl, key, iv, buf, src, orig, mres>>
svars == <<exists, file, hashed, sealed, clock, rng, sigs, tamper, pre, sres,
           seen, foreign, edit, pending>>
vars  == <<impl, key, iv, buf, src, orig, mres,
           exists, file, hashed, sealed, clock, rng, sigs, tamper, pre, sres,
           seen, foreign, edit, pending>>

----------------------------------------------------------------------------
\* Byte-string helpers (Python semantics)

BLOCK_SIZE == 16

Min(a, b) == IF a < b THEN a ELSE b
Max(a, b) == IF a > b THEN a ELSE b

\* s[lo:hi] for 0 <= lo, 0 <= hi (clamped to the length, as Python does)
Slice(s, lo, hi) == SubSeq(s, Min(lo, Len(s)) + 1, Min(hi, Len(s)))

\* bytes([b] * n)
Rep(b, n) == [i \in 1..n |-> b]

RECURSIVE BitXor(_, _, _)
BitXor(a, b, n) ==
    IF n = 0 THEN 0
    ELSE (((a % 2) + (b % 2)) % 2) + 2 * BitXor(a \div 2, b \div 2, n - 1)

\* a ^ b on hex digits, tabulated
NibbleXor == [a \in 0..15 |-> [b \in 0..15 |-> BitXor(a, b, 4)]]

\* a ^ b on bytes
XorByte(a, b) ==
    16 * NibbleXor[a \div 16][b \div 16] + NibbleXor[a % 16][b % 16]

\* bytes(a ^ b for a, b in zip(x, y)): zip stops at the shorter operand
XorBytes(x, y) == [i \in 1..Min(Len(x), Len(y)) |-> XorByte(x[i], y[i])]

\* Outcome of a call: status "ok" or the exception type, its message, the
\* returned bytes, and the number of block-primitive invocations made.
Ok(out, n)         == [status |-> "ok", msg |-> "", out |-> out, calls |-> n]
Raise(type, m, n)  == [status |-> type, msg |-> m, out |-> <<>>, calls |-> n]

----------------------------------------------------------------------------
\* PaddingCodec: pad_data / unpad_data (identical in both implementations)

\* pad_data that adds no padding to a whole number of blocks
pad_data_no_full_block(data, block_size) ==
    LET padding_length == (block_size - (Len(data) % block_size)) % block_size
    IN  data \o Rep(padding_length, padding_length)

\* padding of zero bytes closed by the length byte
pad_data_zero_fill(data, block_size) ==
    LET padding_length == block_size - (Len(data) % block_size)
    IN  data \o Rep(0, padding_length - 1) \o <<padding_length>>

pad_data(data, block_size) ==
    LET padding_length == block_size - (Len(data) % block_size)
    IN  data \o Rep(padding_length, padding_length)

\* unpad_data that trims by the last byte without comparing the trailer
unpad_data_lenient(padded_data) ==
    IF Len(padded_data) = 0
    THEN Raise("IndexError", "index out of range", 0)
    ELSE LET padding_length == padded_data[Len(padded_data)]
             n == Len(padded_data)
         IN  IF padding_length = 0 \/ padding_length > 16
             THEN Raise("ValueError", "Invalid padding", 0)
             ELSE Ok(Slice(padded_data, 0, Max(n - padding_length, 0)), 0)

unpad_data(padded_data) ==
    IF Len(padded_data) = 0
    THEN Raise("IndexError", "index out of range", 0)
    ELSE LET padding_length == padded_data[Len(padded_data)]
             n == Len(padded_data)
         IN  IF padding_length = 0 \/ padding_length > 16
             THEN Raise("ValueError", "Invalid padding", 0)
             ELSE IF Slice(padded_data, Max(n - padding_length, 0), n)
                        # Rep(padding_length, padding_length)
             THEN Raise("ValueError", "Invalid padding", 0)
             ELSE Ok(Slice(padded_data, 0, n - padding_length), 0)

----------------------------------------------------------------------------
\* The external primitives as the mode classes invoke them.

\* Keystream byte i (1-based) of the sponge/COFB stream for (key, nonce).
KeyStreamByte(k, nonce, i) ==
    (17 * k[((i - 1) % Len(k)) + 1]
       + 31 * nonce[((i - 1) % Len(nonce)) + 1] + 7 * i + 1) % 256

KeyStream(k, nonce, n) == [i \in 1..n |-> KeyStreamByte(k, nonce, i)]

\* ascon_encrypt(key, nonce, b'', plaintext) without its trailing 16-byte tag:
\* the ciphertext body is plaintext XOR keystream(key, nonce).
ascon_stream(k, nonce, plaintext) ==
    XorBytes(plaintext, KeyStream(k, nonce, Len(plaintext)))

\* ascon_module.ascon_encrypt(key, nonce, b'', block)[:block_size]
AsconBlock(k, nonce, block) ==
    Slice(ascon_stream(k, nonce, block), 0, BLOCK_SIZE)

\* utils.string_to_list applied to bytes.hex(): one list element per hex digit
HexNibbles(bytes) ==
    [i \in 1..(2 * Len(bytes)) |->
        IF i % 2 = 1 THEN bytes[(i + 1) \div 2] \div 16
                     ELSE bytes[i \div 2] % 16]

\* bytes.fromhex(''.join(f"{x:x}" for x in nibbles)); odd length raises
FromNibbles(nib) == [i \in 1..(Len(nib) \div 2) |-> 16 * nib[2 * i - 1] + nib[2 * i]]

ZERO_NONCE == Rep(0, 16)

\* GiftCofb.encrypt([block], key, [[]], zero nonce)[0][0] on nibble lists:
\* with empty associated data the one block is XORed with a stream that
\* depends on key and nonce only.
gift_encrypt_block(block_list, key_list) ==
    LET ks == HexNibbles(KeyStream(FromNibbles(key_list), ZERO_NONCE,
                                   (Len(block_list) + 1) \div 2))
    IN  [i \in 1..Len(block_list) |-> NibbleXor[block_list[i]][ks[i]]]

\* GiftCofbModes._process_block
process_block(k, block) ==
    FromNibbles(gift_encrypt_block(HexNibbles(block), HexNibbles(k)))

----------------------------------------------------------------------------
\* ChainedCipherMode, Ascon (ascon_modes.py)

KeyErr == Raise("ValueError", "Key must be 16 bytes", 0)
IvErr  == Raise("ValueError", "IV must be 16 bytes", 0)
LenErr == Raise("ValueError", "Ciphertext length must be multiple of 16", 0)

\* The loop bodies; i is the 0-based offset of the block being processed.
RECURSIVE AsconCbcEncLoop(_, _, _, _)
AsconCbcEncLoop(k, padded, i, previous_block) ==
    IF i >= Len(padded) THEN <<>>
    ELSE LET block == Slice(padded, i, i + BLOCK_SIZE)
             xored == XorBytes(block, previous_block)
             encrypted == AsconBlock(k, previous_block, xored)
         IN  encrypted \o AsconCbcEncLoop(k, padded, i + BLOCK_SIZE, encrypted)

\* cbc_decrypt loop that chains on the recovered plaintext block
RECURSIVE AsconCbcDecLoopPlainChain(_, _, _, _)
AsconCbcDecLoopPlainChain(k, ciphertext, i, previous_block) ==
    IF i >= Len(ciphertext) THEN <<>>
    ELSE LET current_block == Slice(ciphertext, i, i + BLOCK_SIZE)
             keystream == AsconBlock(k, previous_block, Rep(0, BLOCK_SIZE))
             decrypted == XorBytes(current_block, keystream)
             plaintext_block == XorBytes(decrypted, previous_block)
         IN  plaintext_block
               \o AsconCbcDecLoopPlainChain(k, ciphertext, i + BLOCK_SIZE,
                                            plaintext_block)

RECURSIVE AsconCbcDecLoop(_, _, _, _)
AsconCbcDecLoop(k, ciphertext, i, previous_block) ==
    IF i >= Len(ciphertext) THEN <<>>
    ELSE LET current_block == Slice(ciphertext, i, i + BLOCK_SIZE)
             keystream == AsconBlock(k, previous_block, Rep(0, BLOCK_SIZE))
             decrypted == XorBytes(current_block, keystream)
             plaintext_block == XorBytes(decrypted, previous_block)
         IN  plaintext_block
               \o AsconCbcDecLoop(k, ciphertext, i + BLOCK_SIZE, current_block)

\* OFB loop that feeds back the XORed block instead of the keystream
RECURSIVE AsconOfbLoopOutputFeedback(_, _, _, _)
AsconOfbLoopOutputFeedback(k, data, i, previous_block) ==
    IF i >= Len(data) THEN <<>>
    ELSE LET keystream == AsconBlock(k, previous_block, Rep(0, BLOCK_SIZE))
             block == Slice(data, i, i + BLOCK_SIZE)
             out == XorBytes(block, keystream)
         IN  out \o AsconOfbLoopOutputFeedback(k, data, i + BLOCK_SIZE, out)

\* OFB encrypt and decrypt run the same loop over their input
RECURSIVE AsconOfbLoop(_, _, _, _)
AsconOfbLoop(k, data, i, previous_block) ==
    IF i >= Len(data) THEN <<>>
    ELSE LET keystream == AsconBlock(k, previous_block, Rep(0, BLOCK_SIZE))
             block == Slice(data, i, i + BLOCK_SIZE)
         IN  XorBytes(block, keystream)
               \o AsconOfbLoop(k, data, i + BLOCK_SIZE, keystream)

\* range(0, len(data), block_size) has this many iterations
Blocks(data) == (Len(data) + BLOCK_SIZE - 1) \div BLOCK_SIZE

\* unpad_data after n primitive invocations
Unpadded(plaintext, n) == [unpad_data(plaintext) EXCEPT !.calls = n]

AsconCbcEncrypt(k, v, plaintext) ==
    IF Len(k) # 16 THEN KeyErr
    ELSE IF Len(v) # 16 THEN IvErr
    ELSE LET padded == pad_data(plaintext, BLOCK_SIZE)
         IN  Ok(AsconCbcEncLoop(k, padded, 0, v), Blocks(padded))

AsconCbcDecrypt(k, v, ciphertext) ==
    IF Len(k) # 16 THEN KeyErr
    ELSE IF Len(v) # 16 THEN IvErr
    ELSE IF Len(ciphertext) % 16 # 0 THEN LenErr
    ELSE Unpadded(AsconCbcDecLoop(k, ciphertext, 0, v), Blocks(ciphertext))

AsconOfbEncrypt(k, v, plaintext) ==
    IF Len(k) # 16 THEN KeyErr
    ELSE IF Len(v) # 16 THEN IvErr
    ELSE LET padded == pad_data(plaintext, BLOCK_SIZE)
         IN  Ok(AsconOfbLoop(k, padded, 0, v), Blocks(padded))

AsconOfbDecrypt(k, v, ciphertext) ==
    IF Len(k) # 16 THEN KeyErr
    ELSE IF Len(v) # 16 THEN IvErr
    ELSE IF Len(ciphertext) % 16 # 0 THEN LenErr
    ELSE Unpadded(AsconOfbLoop(k, ciphertext, 0, v), Blocks(ciphertext))

----------------------------------------------------------------------------
\* ChainedCipherMode, GIFT-COFB (gift_cofb_modes.py)

RECURSIVE GiftCbcEncLoop(_, _, _, _)
GiftCbcEncLoop(k, padded, i, previous_block) ==
    IF i >= Len(padded) THEN <<>>
    ELSE LET block == Slice(padded, i, i + BLOCK_SIZE)
             xored == XorBytes(block, previous_block)
             encrypted == process_block(k, xored)
         IN  encrypted \o GiftCbcEncLoop(k, padded, i + BLOCK_SIZE, encrypted)

RECURSIVE GiftCbcDecLoop(_, _, _, _)
GiftCbcDecLoop(k, ciphertext, i, previous_block) ==
    IF i >= Len(ciphertext) THEN <<>>
    ELSE LET current_block == Slice(ciphertext, i, i + BLOCK_SIZE)
             decrypted == process_block(k, current_block)
             plaintext_block == XorBytes(decrypted, previous_block)
         IN  plaintext_block
               \o GiftCbcDecLoop(k, ciphertext, i + BLOCK_SIZE, current_block)

RECURSIVE GiftOfbLoop(_, _, _, _)
GiftOfbLoop(k, data, i, previous_block) ==
    IF i >= Len(data) THEN <<>>
    ELSE LET keystream == process_block(k, previous_block)
             block == Slice(data, i, i + BLOCK_SIZE)
         IN  XorBytes(block, keystream)
               \o GiftOfbLoop(k, data, i + BLOCK_SIZE, keystream)

\* cbc_encrypt without the IV length check
GiftCbcEncryptNoIvCheck(k, v, plaintext) ==
    IF Len(k) # 16 THEN KeyErr
    ELSE LET padded == pad_data(plaintext, BLOCK_SIZE)
         IN  Ok(GiftCbcEncLoop(k, padded, 0, v), Blocks(padded))

GiftCbcEncrypt(k, v, plaintext) ==
    IF Len(k) # 16 THEN KeyErr
    ELSE IF Len(v) # 16 THEN IvErr
    ELSE LET padded == pad_data(plaintext, BLOCK_SIZE)
         IN  Ok(GiftCbcEncLoop(k, padded, 0, v), Blocks(padded))

GiftCbcDecrypt(k, v, ciphertext) ==
    IF Len(k) # 16 THEN KeyErr
    ELSE IF Len(v) # 16 THEN IvErr
    ELSE IF Len(ciphertext) % 16 # 0 THEN LenErr
    ELSE Unpadded(GiftCbcDecLoop(k, ciphertext, 0, v), Blocks(ciphertext))

GiftOfbEncrypt(k, v, plaintext) ==
    IF Len(k) # 16 THEN KeyErr
    ELSE IF Len(v) # 16 THEN IvErr
    ELSE LET padded == pad_data(plaintext, BLOCK_SIZE)
         IN  Ok(GiftOfbLoop(k, padded, 0, v), Blocks(padded))

GiftOfbDecrypt(k, v, ciphertext) ==
    IF Len(k) # 16 THEN KeyErr
    ELSE IF Len(v) # 16 THEN IvErr
    ELSE IF Len(ciphertext) % 16 # 0 THEN LenErr
    ELSE Unpadded(GiftOfbLoop(k, ciphertext, 0, v), Blocks(ciphertext))

----------------------------------------------------------------------------
\* struct, str.encode / bytes.decode, bytes.rfind

\* struct.pack('>H', n)
Pack16BigEndian(n) == <<n \div 256, n % 256>>

\* struct.pack('<H', n); struct.error when n does not fit 16 bits
Fits16(n) == n < 65536
Pack16(n) == <<n % 256, n \div 256>>

\* struct.pack('<Q', n) for the lengths that occur (below 2^24)
Pack64(n) == <<n % 256, (n \div 256) % 256, n \div 65536, 0, 0, 0, 0, 0>>

\* struct.unpack('<H', b)[0], b of length 2
Unpack16(b) == b[1] + 256 * b[2]

\* Stands for every unpacked length of 2^24 or more: such a length only ever
\* bounds a slice of a far shorter file.
HUGE == 16777216

\* struct.unpack('<Q', b)[0], b of length 8
Unpack64(b) ==
    IF \E j \in 4..8 : b[j] # 0 THEN HUGE
    ELSE b[1] + 256 * b[2] + 65536 * b[3]

\* str.encode('utf-8') on code points below 0x800
RECURSIVE Utf8Encode(_)
Utf8Encode(str) ==
    IF str = <<>> THEN <<>>
    ELSE LET c == Head(str)
         IN  (IF c < 128 THEN <<c>> ELSE <<192 + (c \div 64), 128 + (c % 64)>>)
               \o Utf8Encode(Tail(str))

\* bytes.decode('utf-8') restricted to one- and two-byte sequences: the
\* decoded code points, or <<-1>> for UnicodeDecodeError
RECURSIVE Utf8Decode(_)
Utf8Decode(b) ==
    IF b = <<>> THEN <<>>
    ELSE IF b[1] < 128
         THEN LET rest == Utf8Decode(Tail(b))
              IN  IF rest = <<-1>> THEN rest ELSE <<b[1]>> \o rest
    ELSE IF b[1] >= 194 /\ b[1] < 224 /\ Len(b) >= 2 /\ b[2] >= 128 /\ b[2] < 192
         THEN LET rest == Utf8Decode(Tail(Tail(b)))
              IN  IF rest = <<-1>> THEN rest
                  ELSE <<(b[1] - 192) * 64 + (b[2] - 128)>> \o rest
    ELSE <<-1>>

\* content.find(pat): the leftmost offset at which pat occurs, or -1
find(content, pat) ==
    LET hits == {i \in 0..(Len(content) - Len(pat)) :
                    /\ content[i + 1] = pat[1]
                    /\ Slice(content, i, i + Len(pat)) = pat}
    IN  IF hits = {} THEN -1
        ELSE CHOOSE i \in hits : \A j \in hits : i <= j

\* content.rfind(pat): the rightmost 0-based offset at which pat occurs, or -1
rfind(content, pat) ==
    LET hits == {i \in 0..(Len(content) - Len(pat)) :
                    /\ content[i + 1] = pat[1]
                    /\ Slice(content, i, i + Len(pat)) = pat}
    IN  IF hits = {} THEN -1
        ELSE CHOOSE i \in hits : \A j \in hits : j <= i

----------------------------------------------------------------------------
\* The hash and AEAD primitives of ascon.py / gift_cofb.py, idealised:
\* distinct inputs have distinct digests, and only a ciphertext that an
\* encrypt call produced under the same key, nonce and associated data
\* decrypts.  A digest is issued when a create call hashes its input; an
\* input no create call has hashed has a digest that was never issued.

\* 1-based index of x in the sequence tbl, or Len(tbl) + 1 when absent
IndexOf(tbl, x) ==
    IF \E j \in 1..Len(tbl) : tbl[j] = x
    THEN CHOOSE j \in 1..Len(tbl) : tbl[j] = x
    ELSE Len(tbl) + 1

Learn(tbl, x) == IF \E j \in 1..Len(tbl) : tbl[j] = x THEN tbl ELSE Append(tbl, x)

DIGEST_SIZE == 32
TAG_SIZE == 16

\* ascon_hash(x): the 32-byte digest of the n-th distinct input
Digest(n) == [j \in 1..DIGEST_SIZE |-> (29 * n + 13 * j + 5) % 256]
ascon_hash(tbl, x) == Digest(IndexOf(tbl, x))

\* The 16-byte tag of the n-th distinct sealed input
TagBytes(n) == [j \in 1..TAG_SIZE |-> (37 * n + 11 * j + 128) % 256]

Sealed(k, nonce, ad, plaintext) ==
    [key |-> k, nonce |-> nonce, ad |-> ad, pt |-> plaintext]

\* ascon_encrypt(key, nonce, associateddata, plaintext): body ++ tag
ascon_encrypt(log, k, nonce, ad, plaintext) ==
    ascon_stream(k, nonce, plaintext)
      \o TagBytes(IndexOf(log, Sealed(k, nonce, ad, plaintext)))

\* ascon_decrypt(key, nonce, associateddata, ciphertext):
\* [status |-> "ok", pt |-> plaintext], "None" when authentication fails,
\* "AssertionError" when an argument has the wrong length
ascon_decrypt(log, k, nonce, ad, ciphertext) ==
    IF Len(k) # 16 \/ Len(nonce) # 16 \/ Len(ciphertext) < TAG_SIZE
    THEN [status |-> "AssertionError", pt |-> <<>>]
    ELSE LET body == Slice(ciphertext, 0, Len(ciphertext) - TAG_SIZE)
             tag  == Slice(ciphertext, Len(ciphertext) - TAG_SIZE, Len(ciphertext))
             plaintext == ascon_stream(k, nonce, body)
             n == IndexOf(log, Sealed(k, nonce, ad, plaintext))
         IN  IF n <= Len(log) /\ tag = TagBytes(n)
             THEN [status |-> "ok", pt |-> plaintext]
             ELSE [status |-> "None", pt |-> <<>>]

\* GiftCofb.encrypt(blocks, key, ad_blocks, nonce) on the hex digits of the
\* message: [ct |-> encrypted bytes, tag |-> 16-byte tag]
gift_encrypt(log, key_list, ad, nonce, plaintext) ==
    LET ks == HexNibbles(KeyStream(FromNibbles(key_list), nonce, Len(plaintext)))
        m  == HexNibbles(plaintext)
    IN  [ct  |-> FromNibbles([i \in 1..Len(m) |-> NibbleXor[m[i]][ks[i]]]),
         tag |-> TagBytes(IndexOf(log, Sealed(key_list, nonce, ad, plaintext)))]

\* GiftCofb.verify(blocks, key, ad_blocks, nonce, tag): the decrypted bytes,
\* or "fail" for the [-1] it returns when the tag does not match
gift_verify(log, key_list, ad, nonce, ciphertext, tag) ==
    IF Len(key_list) # 32 \/ Len(nonce) # 16
    THEN [status |-> "fail", pt |-> <<>>]
    ELSE LET plaintext == gift_encrypt(log, key_list, ad, nonce, ciphertext).ct
             n == IndexOf(log, Sealed(key_list, nonce, ad, plaintext))
         IN  IF n <= Len(log) /\ tag = TagBytes(n)
             THEN [status |-> "ok", pt |-> plaintext]
             ELSE [status |-> "fail", pt |-> <<>>]

----------------------------------------------------------------------------
\* SignatureCodec (changes.py of both implementations)

ASCON_MAGIC == <<65, 83, 67, 79, 78, 95, 83, 73, 71>>     \* b"ASCON_SIG"
GIFT_MAGIC  == <<71, 73, 70, 84, 95, 83, 73, 71>>         \* b"GIFT_SIG"

Magic(i) == IF i = "ascon" THEN ASCON_MAGIC ELSE GIFT_MAGIC

\* MIN_SIG_SIZE = len(MAGIC) + 8, the nonce forgotten
MinSigSizeNoNonce(i) == Len(Magic(i)) + 8

\* MIN_SIG_SIZE = len(MAGIC) + 8 + 16
MinSigSize(i) == Len(Magic(i)) + 8 + 16

\* datetime.now().isoformat() at tick c: "2026-11-05T10:00:00.00000c"
Timestamp(c) ==
    <<50, 48, 50, 54, 45, 49, 49, 45, 48, 53, 84, 49, 48, 58, 48, 48, 58,
      48, 48, 46, 48, 48, 48, 48, 48, 48 + (c % 10)>>

\* Outcome of a create / verify call.  stage is the last step the call
\* reached, start the offset rfind returned (-1 when it was not computed or
\* nothing was found).
SigOutcome(op, k, status, msg, stage, start, author, ts, block) ==
    [op |-> op, key |-> k, status |-> status, msg |-> msg, stage |-> stage,
     start |-> start, author |-> author, ts |-> ts, block |-> block,
     length |-> Len(block)]

NoSigCall == SigOutcome("none", <<>>, "none", "", "none", -1, <<>>, <<>>, <<>>)

\* metadata = pack('<H', len(timestamp)) + timestamp
\*          + pack('<H', len(author_id_bytes)) + author_id_bytes
Metadata(timestamp, author_id_bytes) ==
    Pack16(Len(timestamp)) \o timestamp
      \o Pack16(Len(author_id_bytes)) \o author_id_bytes

\* The parse of the decrypted bytes shared by both verify functions:
\* [ok, author, ts, pos] with pos the offset after the author field.
ParseMetadata(data) ==
    LET bad == [ok |-> FALSE, author |-> <<>>, ts |-> <<>>, pos |-> 0]
    IN  IF Len(Slice(data, 0, 2)) # 2 THEN bad
        ELSE LET timestamp_len == Unpack16(Slice(data, 0, 2))
                 timestamp == Utf8Decode(Slice(data, 2, 2 + timestamp_len))
                 p == 2 + timestamp_len
             IN  IF timestamp = <<-1>> \/ Len(Slice(data, p, p + 2)) # 2 THEN bad
                 ELSE LET author_id_len == Unpack16(Slice(data, p, p + 2))
                          author_id ==
                              Utf8Decode(Slice(data, p + 2, p + 2 + author_id_len))
                      IN  IF author_id = <<-1>> THEN bad
                          ELSE [ok |-> TRUE, author |-> author_id,
                                ts |-> timestamp, pos |-> p + 2 + author_id_len]

\* with open(filepath, 'wb') as f: f.write(final_signature)
OverwriteBytes(content, final_signature) == final_signature

\* a digest comparison that never fails
HashMismatchIgnored(current_hash, stored_hash) == FALSE

\* a None check that never fires
DecryptionFailedIgnored(signature_block) == FALSE

\* a write that stops one byte short of the block
AppendBytesTorn(content, final_signature) ==
    content \o Slice(final_signature, 0, Len(final_signature) - 1)

\* with open(filepath, 'ab') as f: f.write(final_signature)
AppendBytes(content, final_signature) == content \o final_signature

\* document_content = content: the block is taken for part of the document
DocumentContentWholeFile(content, sig_start) == content

\* document_content = content[:sig_start]
DocumentContent(content, sig_start) == Slice(content, 0, sig_start)

\* if signature_block is None
DecryptionFailed(signature_block) == signature_block.status = "None"

\* if current_hash != stored_hash
HashMismatch(current_hash, stored_hash) == current_hash # stored_hash

\* a verify call that takes every byte after the nonce as ciphertext
ReadFrameToEnd(i, content, sig_start) ==
    LET pos == sig_start + Len(Magic(i))
        len_bytes == Slice(content, pos, pos + 8)
        sig_len == IF Len(len_bytes) = 8 THEN Unpack64(len_bytes) ELSE -1
    IN  [start |-> sig_start,
         sig_len |-> sig_len,
         nonce |-> Slice(content, pos + 8, pos + 24),
         ciphertext |-> IF sig_len < 0 THEN <<>>
                        ELSE Slice(content, pos + 24, Len(content)),
         tag |-> <<>>,
         doc |-> DocumentContent(content, sig_start)]

\* The fields a verify call reads at and after the offset rfind returned:
\* the 8 length bytes, sig_len (-1 when fewer than 8 bytes are left), the
\* nonce, sig_len bytes of ciphertext, in the GIFT implementation the 16
\* bytes after them, and the bytes before the offset as document content.
ReadFrame(i, content, sig_start) ==
    LET pos == sig_start + Len(Magic(i))
        len_bytes == Slice(content, pos, pos + 8)
        sig_len == IF Len(len_bytes) = 8 THEN Unpack64(len_bytes) ELSE -1
    IN  [start |-> sig_start,
         sig_len |-> sig_len,
         nonce |-> Slice(content, pos + 8, pos + 24),
         ciphertext |-> IF sig_len < 0 THEN <<>>
                        ELSE Slice(content, pos + 24, pos + 24 + sig_len),
         tag |-> IF sig_len < 0 \/ i = "ascon" THEN <<>>
                 ELSE Slice(content, pos + 24 + sig_len, pos + 24 + sig_len + 16),
         doc |-> DocumentContent(content, sig_start)]

\* No block has been appended by another program
NoForeign == [by |-> <<>>, data |-> <<>>, start |-> -1]

\* The owner has not touched the file since it was signed
NoEdit == [removed |-> 0, trailing |-> <<>>]

\* The callers that may sign one file at the same time
Callers == {1, 2}

\* A caller that has not called create.  reading: the caller has read the
\* file and not yet appended; at: the offset its last block was appended at.
Idle ==
    [key |-> <<>>, author |-> <<>>, content |-> <<>>, reading |-> FALSE,
     at |-> -1]

\* No caller is inside a create call
NoPending == [c \in Callers |-> Idle]

\* No frame was read: the call stopped before or at the search
NoFrame ==
    [start |-> -1, sig_len |-> -1, nonce |-> <<>>, ciphertext |-> <<>>,
     tag |-> <<>>, doc |-> <<>>]

\* The stages of a verify call that come after the search for the magic
PastFind == {"frame", "decrypt", "parse", "digest", "done"}

\* What a verify call with outcome r read from content
FrameSeen(i, content, r) ==
    IF r.stage \in PastFind THEN ReadFrame(i, content, r.start) ELSE NoFrame

\* a create call that hashes only what precedes the newest block in the file
SignedContentBeforeLastBlock(document_content) ==
    IF rfind(document_content, ASCON_MAGIC) = -1 THEN document_content
    ELSE Slice(document_content, 0, rfind(document_content, ASCON_MAGIC))

\* doc_hash = ascon_hash(document_content): everything that was read
SignedContent(document_content) == document_content

\* struct.pack('<H', len(author_id.encode('utf-8'))) does not raise
\* struct.error.  Every character encodes to at least one byte, so an id of
\* 65536 characters or more is too long whatever its encoding.
AuthorFits(author_id) ==
    Fits16(Len(author_id)) /\ Fits16(Len(Utf8Encode(author_id)))

\* The block create_document_signature frames, given the file it read
AsconBlockFor(tbl, log, document_content, k, author_id, nonce, now) ==
    LET metadata == Metadata(Utf8Encode(now), Utf8Encode(author_id))
        doc_hash == ascon_hash(tbl, SignedContent(document_content))
        signature_data == metadata \o doc_hash
        encrypted_signature == ascon_encrypt(log, k, nonce, <<>>, signature_data)
    IN  ASCON_MAGIC \o Pack64(Len(encrypted_signature)) \o nonce
          \o encrypted_signature

\* What create_document_signature seals
AsconSealFor(tbl, document_content, k, author_id, nonce, now) ==
    Sealed(k, nonce, <<>>,
           Metadata(Utf8Encode(now), Utf8Encode(author_id))
             \o ascon_hash(tbl, SignedContent(document_content)))

\* verify_document_signature on a file with the given content
verify_document_signature(present, content, k, tbl, log) ==
    LET Fail(msg, stage, start) ==
            SigOutcome("verify", k, "SignatureError", msg, stage, start,
                       <<>>, <<>>, <<>>)
    IN
    IF ~present THEN Fail("Verification failed", "open", -1)
    ELSE IF Len(content) < MinSigSize("ascon")
    THEN Fail("File too small to contain a valid signature", "size", -1)
    ELSE LET sig_start == rfind(content, ASCON_MAGIC) IN
    IF sig_start = -1 THEN Fail("No valid signature found", "find", -1)
    ELSE LET fr == ReadFrame("ascon", content, sig_start) IN
    IF fr.sig_len < 0 THEN Fail("Verification failed", "frame", sig_start)
    ELSE LET nonce == fr.nonce
             encrypted_signature == fr.ciphertext
             document_content == fr.doc
             signature_block == ascon_decrypt(log, k, nonce, <<>>, encrypted_signature)
         IN
    IF signature_block.status = "AssertionError"
    THEN Fail("Verification failed", "decrypt", sig_start)
    ELSE IF DecryptionFailed(signature_block)
    THEN Fail("Signature decryption failed", "decrypt", sig_start)
    ELSE LET meta == ParseMetadata(signature_block.pt) IN
    IF ~meta.ok THEN Fail("Verification failed", "parse", sig_start)
    ELSE LET stored_hash == Slice(signature_block.pt, meta.pos, meta.pos + 32)
             current_hash == ascon_hash(tbl, document_content)
         IN
    IF HashMismatch(current_hash, stored_hash)
    THEN Fail("Document content has been modified", "digest", sig_start)
    ELSE SigOutcome("verify", k, "ok", "", "done", sig_start,
                    meta.author, meta.ts, <<>>)

\* a nonce that is 16 zero bytes whatever the document
GiftNonceZero(document_content) == Rep(0, 16)

\* nonce_hex = doc_hex[:32].ljust(32, '0')
GiftNonce(document_content) ==
    Slice(document_content, 0, 16) \o Rep(0, 16 - Min(16, Len(document_content)))

\* The block create_gift_document_signature frames
GiftBlockFor(log, document_content, key_list, author_id, now) ==
    LET metadata == Metadata(Utf8Encode(now), Utf8Encode(author_id))
        nonce == GiftNonce(document_content)
        enc == gift_encrypt(log, key_list, document_content, nonce, metadata)
    IN  GIFT_MAGIC \o Pack64(Len(enc.ct)) \o nonce \o enc.ct \o enc.tag

GiftSealFor(document_content, key_list, author_id, now) ==
    Sealed(key_list, GiftNonce(document_content), document_content,
           Metadata(Utf8Encode(now), Utf8Encode(author_id)))

\* verify_gift_document_signature on a file with the given content
verify_gift_document_signature(present, content, key_list, log) ==
    LET Fail(msg, stage, start) ==
            SigOutcome("verify", key_list, "GiftSignatureError", msg, stage,
                       start, <<>>, <<>>, <<>>)
    IN
    IF ~present THEN Fail("Verification failed", "open", -1)
    ELSE IF Len(content) < MinSigSize("gift")
    THEN Fail("File too small to contain a valid signature", "size", -1)
    ELSE LET sig_start == rfind(content, GIFT_MAGIC) IN
    IF sig_start = -1 THEN Fail("No valid signature found", "find", -1)
    ELSE LET fr == ReadFrame("gift", content, sig_start) IN
    IF fr.sig_len < 0 THEN Fail("Verification failed", "frame", sig_start)
    ELSE LET nonce == fr.nonce
             encrypted_data == fr.ciphertext
             tag == fr.tag
             document_content == fr.doc
             decrypted == gift_verify(log, key_list, document_content, nonce,
                                      encrypted_data, tag)
         IN
    IF decrypted.status = "fail"
    THEN Fail("Signature verification failed", "decrypt", sig_start)
    ELSE LET meta == ParseMetadata(decrypted.pt) IN
    IF ~meta.ok THEN Fail("Verification failed", "parse", sig_start)
    ELSE SigOutcome("verify", key_list, "ok", "", "done", sig_start,
                    meta.author, meta.ts, <<>>)

----------------------------------------------------------------------------
\* Dispatch on the implementation under test

CbcEncrypt(i, k, v, d) ==
    IF i = "ascon" THEN AsconCbcEncrypt(k, v, d) ELSE GiftCbcEncrypt(k, v, d)
CbcDecrypt(i, k, v, d) ==
    IF i = "ascon" THEN AsconCbcDecrypt(k, v, d) ELSE GiftCbcDecrypt(k, v, d)
OfbEncrypt(i, k, v, d) ==
    IF i = "ascon" THEN AsconOfbEncrypt(k, v, d) ELSE GiftOfbEncrypt(k, v, d)
OfbDecrypt(i, k, v, d) ==
    IF i = "ascon" THEN AsconOfbDecrypt(k, v, d) ELSE GiftOfbDecrypt(k, v, d)

----------------------------------------------------------------------------
\* Inputs of the mode functions

\* Longest plaintext, in bytes beyond two full blocks
MaxExtra == 1

\* n bytes b, b+1, ...
Ramp(b, n) == [i \in 1..n |-> (b + i - 1) % 256]

ModeKeys == {Ramp(1, 16), Rep(0, 16), Ramp(200, 15), Ramp(7, 17)}
ModeIVs  == {Ramp(100, 16), Rep(0, 16), Ramp(9, 15), <<>>}

PlainLens ==
    {0, 1, 15, 16, 17, 46} \cup {2 * BLOCK_SIZE + e : e \in 0..MaxExtra}

\* Plaintexts of every length of interest, some ending in padding-like bytes
Plaintexts ==
    {Ramp(65, n) : n \in PlainLens}
      \cup {Rep(16, 16), Rep(1, 1), Rep(0, 15) \o <<1>>, <<3, 3>>}

\* Buffers handed directly to unpad_data / the decrypt functions
RawBuffers ==
    {<<0>>, <<17>>, <<3, 3>>, <<5, 3, 3, 3>>, <<9, 2, 3>>, <<7, 7, 2, 2>>,
     Rep(16, 15), Rep(16, 17), Ramp(30, 16), Ramp(30, 20), Rep(255, 32)}

ModeOps == {"pad_data", "unpad_data", "cbc_encrypt", "cbc_decrypt",
            "ofb_encrypt", "ofb_decrypt"}

NoCall == [op |-> "none", status |-> "none", msg |-> "", out |-> <<>>, calls |-> 0]

Called(op, r) ==
    [op |-> op, status |-> r.status, msg |-> r.msg, out |-> r.out, calls |-> r.calls]

InitModes ==
    /\ impl \in {"ascon", "gift"}
    /\ key \in ModeKeys
    /\ iv \in ModeIVs
    /\ buf \in Plaintexts \cup RawBuffers
    /\ src = "input"
    /\ orig = <<>>
    /\ mres = NoCall
    /\ exists = TRUE
    /\ file = <<>>
    /\ hashed = <<>>
    /\ sealed = <<>>
    /\ clock = 0
    /\ rng = 0
    /\ sigs = <<>>
    /\ tamper = 0
    /\ pre = <<>>
    /\ sres = NoSigCall
    /\ seen = NoFrame
    /\ foreign = NoForeign
    /\ edit = NoEdit
    /\ pending = NoPending

PadData ==
    /\ mres' = Called("pad_data", Ok(pad_data(buf, BLOCK_SIZE), 0))
    /\ UNCHANGED <<impl, key, iv, buf, src, orig>>
    /\ UNCHANGED svars

UnpadData ==
    /\ mres' = Called("unpad_data", unpad_data(buf))
    /\ UNCHANGED <<impl, key, iv, buf, src, orig>>
    /\ UNCHANGED svars

DoCbcEncrypt ==
    /\ mres' = Called("cbc_encrypt", CbcEncrypt(impl, key, iv, buf))
    /\ UNCHANGED <<impl, key, iv, buf, src, orig>>
    /\ UNCHANGED svars

DoCbcDecrypt ==
    /\ mres' = Called("cbc_decrypt", CbcDecrypt(impl, key, iv, buf))
    /\ UNCHANGED <<impl, key, iv, buf, src, orig>>
    /\ UNCHANGED svars

DoOfbEncrypt ==
    /\ mres' = Called("ofb_encrypt", OfbEncrypt(impl, key, iv, buf))
    /\ UNCHANGED <<impl, key, iv, buf, src, orig>>
    /\ UNCHANGED svars

DoOfbDecrypt ==
    /\ mres' = Called("ofb_decrypt", OfbDecrypt(impl, key, iv, buf))
    /\ UNCHANGED <<impl, key, iv, buf, src, orig>>
    /\ UNCHANGED svars

\* The caller hands the bytes a successful call returned to the next call
\* (test_encryption_mode: decrypt_func(key, iv, ciphertext)).
UseOutput ==
    /\ src = "input"
    /\ mres.status = "ok"
    /\ mres.op \in {"pad_data", "cbc_encrypt", "ofb_encrypt"}
    /\ buf' = mres.out
    /\ src' = mres.op
    /\ orig' = buf
    /\ mres' = NoCall
    /\ UNCHANGED <<impl, key, iv>>
    /\ UNCHANGED svars

NextModes ==
    \/ PadData
    \/ UnpadData
    \/ DoCbcEncrypt
    \/ DoCbcDecrypt
    \/ DoOfbEncrypt
    \/ DoOfbDecrypt
    \/ UseOutput

SpecModes == InitModes /\ [][NextModes]_vars

----------------------------------------------------------------------------
\* Properties of the padding codec and the chaining modes (SpecModes)

OfbLoop(i, k, data, v) ==
    IF i = "ascon" THEN AsconOfbLoop(k, data, 0, v) ELSE GiftOfbLoop(k, data, 0, v)

\* The OFB keystream K1 = E(key, IV), Ki = E(key, Ki-1) of n bytes: what the
\* loop leaves of an all-zero input
OfbKeystream(i, k, v, n) == OfbLoop(i, k, Rep(0, n), v)

\* C5: CBC round trip.  Decrypting, with the same key and IV, the bytes
\* cbc_encrypt returned gives back the plaintext, whatever its length.
C5_CbcRoundTrip ==
    (mres.op = "cbc_decrypt" /\ src = "cbc_encrypt")
        => (mres.status = "ok" /\ mres.out = orig)

C5_Witness ==
    /\ mres.op = "cbc_decrypt"
    /\ src = "cbc_encrypt"
    /\ impl = "ascon"
    /\ Len(orig) = 2 * BLOCK_SIZE
    /\ Len(buf) = 3 * BLOCK_SIZE
    /\ mres.status = "ok"
    /\ mres.out = orig

\* C6: OFB round trip.  Decrypting the bytes ofb_encrypt returned gives back
\* the plaintext, and both directions XOR their input with the keystream
\* K1 = E(key, IV), Ki = E(key, Ki-1), which does not depend on the data.
C6_OfbRoundTrip ==
    /\ (mres.op = "ofb_decrypt" /\ src = "ofb_encrypt")
           => (mres.status = "ok" /\ mres.out = orig)
    /\ (mres.op = "ofb_encrypt" /\ mres.status = "ok")
           => mres.out = XorBytes(pad_data(buf, BLOCK_SIZE),
                                  OfbKeystream(impl, key, iv, Len(mres.out)))
    /\ (mres.op = "ofb_decrypt" /\ mres.status = "ok")
           => pad_data(mres.out, BLOCK_SIZE)
                 = XorBytes(buf, OfbKeystream(impl, key, iv, Len(buf)))

C6_Witness ==
    /\ mres.op = "ofb_decrypt"
    /\ src = "ofb_encrypt"
    /\ impl = "gift"
    /\ Len(orig) = 2 * BLOCK_SIZE + 1
    /\ mres.status = "ok"
    /\ mres.out = orig

\* C7: padding round trip.  unpad_data(pad_data(data, 16)) = data for every
\* length, a whole number of blocks and the empty string included.
C7_PadRoundTrip ==
    (mres.op = "unpad_data" /\ src = "pad_data")
        => (mres.status = "ok" /\ mres.out = orig)

C7_Witness ==
    /\ mres.op = "unpad_data"
    /\ src = "pad_data"
    /\ Len(orig) = BLOCK_SIZE
    /\ Len(buf) = 2 * BLOCK_SIZE
    /\ mres.status = "ok"
    /\ mres.out = orig

\* C8: strict unpad.  With n the last byte of a non-empty buffer, unpad_data
\* raises "Invalid padding" when n = 0, n > 16, or the buffer does not end in
\* n bytes of value n (a buffer shorter than n included); otherwise it
\* returns the buffer without its last n bytes.
C8_StrictUnpad ==
    (mres.op = "unpad_data" /\ buf # <<>>)
        => LET n == buf[Len(buf)]
               wellFormed ==
                   /\ n >= 1
                   /\ n <= 16
                   /\ n <= Len(buf)
                   /\ \A j \in (Len(buf) - n + 1)..Len(buf) : buf[j] = n
           IN  IF wellFormed
               THEN mres.status = "ok" /\ mres.out = SubSeq(buf, 1, Len(buf) - n)
               ELSE mres.status = "ValueError" /\ mres.msg = "Invalid padding"

C8_Witness ==
    /\ mres.op = "unpad_data"
    /\ buf = <<3, 3>>
    /\ mres.status = "ValueError"
    /\ mres.msg = "Invalid padding"

\* C9: length validation first.  The four mode functions raise a length
\* error when the key or the IV is not 16 bytes long, and the two decrypt
\* functions also when the ciphertext length is not a multiple of 16; the
\* block primitive is then not invoked and nothing is returned.
C9_LengthValidation ==
    (/\ mres.op \in {"cbc_encrypt", "cbc_decrypt", "ofb_encrypt", "ofb_decrypt"}
     /\ \/ Len(key) # 16
        \/ Len(iv) # 16
        \/ (mres.op \in {"cbc_decrypt", "ofb_decrypt"} /\ Len(buf) % 16 # 0))
        => /\ mres.status = "ValueError"
           /\ mres.msg \in {"Key must be 16 bytes", "IV must be 16 bytes",
                            "Ciphertext length must be multiple of 16"}
           /\ mres.calls = 0
           /\ mres.out = <<>>

C9_Witness ==
    /\ mres.op = "ofb_decrypt"
    /\ Len(key) = 16
    /\ Len(iv) = 16
    /\ Len(buf) % 16 # 0
    /\ mres.status = "ValueError"
    /\ mres.msg = "Ciphertext length must be multiple of 16"
    /\ mres.calls = 0

\* C17: padding rule.  pad_data(data, 16) is data followed by n bytes of
\* value n with n = 16 - (len(data) mod 16), between 1 and 16: a whole
\* block when the length is already a multiple of 16.  The ciphertext of
\* cbc_encrypt and ofb_encrypt is therefore as long as the smallest multiple
\* of 16 above the plaintext length (46 bytes give 48).
C17_PaddingRule ==
    /\ (mres.op = "pad_data")
           => LET n == BLOCK_SIZE - (Len(buf) % BLOCK_SIZE)
              IN  /\ n >= 1
                  /\ n <= BLOCK_SIZE
                  /\ mres.status = "ok"
                  /\ Len(mres.out) = Len(buf) + n
                  /\ SubSeq(mres.out, 1, Len(buf)) = buf
                  /\ \A j \in (Len(buf) + 1)..(Len(buf) + n) : mres.out[j] = n
    /\ (mres.op \in {"cbc_encrypt", "ofb_encrypt"} /\ mres.status = "ok")
           => /\ Len(mres.out) % BLOCK_SIZE = 0
              /\ Len(mres.out) > Len(buf)
              /\ Len(mres.out) - BLOCK_SIZE <= Len(buf)
              /\ mres.calls = Len(mres.out) \div BLOCK_SIZE

C17_Witness ==
    /\ mres.op = "cbc_encrypt"
    /\ mres.status = "ok"
    /\ Len(buf) = 46
    /\ Len(mres.out) = 48

\* Block j (1-based) of a byte string
BlockOf(data, j) == Slice(data, (j - 1) * BLOCK_SIZE, j * BLOCK_SIZE)

\* The single-block primitive E(key, block) of an implementation, with
\* nothing but the key and the block as its input: _process_block, and
\* ascon_encrypt under the given fixed nonce.
BlockPrimitive(i, k, fixed_nonce, block) ==
    IF i = "ascon" THEN AsconBlock(k, fixed_nonce, block)
    ELSE process_block(k, block)

\* Ci = E(key, Bi XOR Ci-1) with C0 = IV for the output of a cbc_encrypt call
CbcOf(i, k, v, plaintext, out, fixed_nonce) ==
    LET padded == pad_data(plaintext, BLOCK_SIZE)
    IN  /\ Len(out) = Len(padded)
        /\ \A j \in 1..(Len(padded) \div BLOCK_SIZE) :
               BlockOf(out, j)
                   = BlockPrimitive(i, k, fixed_nonce,
                         XorBytes(BlockOf(padded, j),
                                  IF j = 1 THEN v ELSE BlockOf(out, j - 1)))

\* C19: CBC encrypt rule (both implementations).  cbc_encrypt returns
\* Ci = E(key, Bi XOR Ci-1) with C0 = IV, where E takes the key and the
\* XORed block only: the previous ciphertext block is no further input
\* (nonce) of the primitive, which runs under one fixed nonce, all zero or
\* the IV.
C19_CbcRule ==
    (mres.op = "cbc_encrypt" /\ mres.status = "ok")
        => \E fixed_nonce \in {ZERO_NONCE, iv} :
               CbcOf(impl, key, iv, buf, mres.out, fixed_nonce)

\* C19 for the GIFT-COFB implementation alone
C19_CbcRuleGift == impl = "gift" => C19_CbcRule

\* What ascon_modes.py computes: Ci = E(key, nonce = Ci-1, Bi XOR Ci-1)
C19_AsconChainsNonce ==
    (impl = "ascon" /\ mres.op = "cbc_encrypt" /\ mres.status = "ok")
        => LET padded == pad_data(buf, BLOCK_SIZE)
           IN  \A j \in 1..(Len(padded) \div BLOCK_SIZE) :
                   LET prev == IF j = 1 THEN iv ELSE BlockOf(mres.out, j - 1)
                   IN  BlockOf(mres.out, j)
                           = AsconBlock(key, prev, XorBytes(BlockOf(padded, j), prev))

\* C20: padding failure kind (both implementations).  A cbc_decrypt or
\* ofb_decrypt call whose key, IV and ciphertext pass the length checks, the
\* ciphertext of length zero included, and whose decrypted bytes do not end
\* in valid padding, fails with ValueError("Invalid padding") and with no
\* other error.
C20_PaddingFailureKind ==
    (/\ mres.op \in {"cbc_decrypt", "ofb_decrypt"}
     /\ Len(key) = 16
     /\ Len(iv) = 16
     /\ Len(buf) % 16 = 0
     /\ mres.status # "ok")
        => /\ mres.status = "ValueError"
           /\ mres.msg = "Invalid padding"

\* C20 for every ciphertext but the empty one
C20_PaddingFailureKindNonEmpty == buf # <<>> => C20_PaddingFailureKind

----------------------------------------------------------------------------
\* The signing state machine: one file, signed and verified by callers that
\* run one after the other, and modified by its owner between the calls.

\* Signatures appended in one run
MaxSigs == 2

\* "al", "b" + U+00E9
Authors == <<(<<97, 108>>), (<<98, 233>>)>>

AsconKeys == <<Ramp(1, 16), Ramp(101, 16), Ramp(1, 15)>>

\* Hex keys as their digit values: "0123...EF0123...EF", "FEDC...10FEDC...10"
\* and a key of 31 digits
GiftKeys ==
    <<[i \in 1..32 |-> (i - 1) % 16], [i \in 1..32 |-> 15 - ((i - 1) % 16)],
      [i \in 1..31 |-> (i - 1) % 16]>>

SigKeys(i) == IF i = "ascon" THEN AsconKeys ELSE GiftKeys

Signer(k, a) == [key |-> k, author |-> a]

\* An author id of 65536 characters: its length does not fit '<H'
LongAuthor == Rep(97, 65536)

\* The callers of create: two authors with a key each, one whose key is too
\* short, and one whose author id is too long
Signers(i) ==
    {Signer(SigKeys(i)[1], Authors[1]), Signer(SigKeys(i)[2], Authors[2]),
     Signer(SigKeys(i)[3], Authors[1]), Signer(SigKeys(i)[1], LongAuthor)}

\* get_random_bytes(16), idealised: the d-th draw, distinct from all others
RandomBytes(d) == Ramp((11 + 40 * d) % 256, 16)

\* Documents: empty, one holding the magic, one longer than a nonce, and one
\* of just the minimum size of a signed file
Documents(i) ==
    {<<>>, <<35>> \o Magic(i) \o <<33>>, Ramp(65, 17), Ramp(65, MinSigSize(i))}

Init ==
    /\ impl \in {"ascon", "gift"}
    /\ key = <<>>
    /\ iv = <<>>
    /\ buf = <<>>
    /\ src = "input"
    /\ orig = <<>>
    /\ mres = NoCall
    /\ exists \in BOOLEAN
    /\ file \in (IF exists THEN Documents(impl) ELSE {<<>>})
    /\ hashed = <<>>
    /\ sealed = <<>>
    /\ clock = 0
    /\ rng = 0
    /\ sigs = <<>>
    /\ tamper = 0
    /\ pre = <<>>
    /\ sres = NoSigCall
    /\ seen = NoFrame
    /\ foreign = NoForeign
    /\ edit = NoEdit
    /\ pending = NoPending

\* The primitive call of a create call that raises, "none" when none does:
\* the first primitive each create function invokes
AsconFaults == {"none", "ascon_hash"}
GiftFaults == {"none", "encrypt"}

\* A create call that fails after it has written the magic to the file
CreateFailsPartial(k, status, msg, stage) ==
    /\ sres' = SigOutcome("create", k, status, msg, stage, -1, <<>>, <<>>, <<>>)
    /\ pre' = file
    /\ seen' = NoFrame
    /\ file' = file \o Magic(impl)
    /\ UNCHANGED <<exists, clock, sigs, tamper, foreign>>

\* A create call that raises at the given stage: nothing is written
CreateFails(k, status, msg, stage) ==
    /\ sres' = SigOutcome("create", k, status, msg, stage, -1, <<>>, <<>>, <<>>)
    /\ pre' = file
    /\ seen' = NoFrame
    /\ UNCHANGED <<exists, file, clock, sigs, tamper, foreign>>

\* A create call that raises before it reads the file
CreateRaises(k, status, msg) ==
    /\ CreateFails(k, status, msg, "check")
    /\ UNCHANGED <<hashed, sealed, rng>>

\* A create call that appends block, having sealed entry
CreateAppends(k, a, nonce, draws, block, entry, learnt) ==
    /\ file' = AppendBytes(file, block)
    /\ rng' = rng + draws
    /\ hashed' = learnt
    /\ sealed' = Learn(sealed, entry)
    /\ clock' = clock + 1
    /\ sigs' = Append(sigs, [start |-> Len(file), stop |-> Len(file) + Len(block),
                             key |-> k, author |-> a, ts |-> Timestamp(clock),
                             nonce |-> nonce])
    /\ pre' = file
    /\ sres' = SigOutcome("create", k, "ok", "", "done", Len(file), a,
                          Timestamp(clock), block)
    /\ seen' = NoFrame
    /\ UNCHANGED <<exists, tamper, foreign>>

create_document_signature(k, a, fault) ==
    /\ impl = "ascon"
    /\ Len(sigs) < MaxSigs
    /\ tamper = 0
    /\ foreign = NoForeign
    /\ IF ~exists THEN CreateRaises(k, "FileNotFoundError", "Document not found")
       ELSE IF Len(k) # 16
       THEN CreateRaises(k, "ValueError", "Author key must be exactly 16 bytes")
       ELSE IF ~AuthorFits(a)
       THEN /\ CreateFails(k, "SignatureError", "Failed to create signature", "pack")
            /\ UNCHANGED <<hashed, sealed, rng>>
       ELSE IF fault = "ascon_hash"
       THEN /\ CreateFails(k, "SignatureError", "Failed to create signature", "hash")
            /\ UNCHANGED <<hashed, sealed, rng>>
       ELSE LET nonce == RandomBytes(rng)
            IN  CreateAppends(k, a, nonce, 1,
                    AsconBlockFor(hashed, sealed, file, k, a, nonce, Timestamp(clock)),
                    AsconSealFor(hashed, file, k, a, nonce, Timestamp(clock)),
                    Learn(hashed, SignedContent(file)))
    /\ UNCHANGED <<mvars, edit, pending>>

create_gift_document_signature(k, a, fault) ==
    /\ impl = "gift"
    /\ Len(sigs) < MaxSigs
    /\ tamper = 0
    /\ foreign = NoForeign
    /\ IF ~exists THEN CreateRaises(k, "FileNotFoundError", "Document not found")
       ELSE IF Len(k) # 32
       THEN CreateRaises(k, "ValueError",
                         "Author key must be exactly 32 hex characters (16 bytes)")
       ELSE IF ~AuthorFits(a)
       THEN /\ CreateFails(k, "GiftSignatureError", "Failed to create signature",
                           "pack")
            /\ UNCHANGED <<hashed, sealed, rng>>
       ELSE IF fault = "encrypt"
       THEN /\ CreateFails(k, "GiftSignatureError", "Failed to create signature",
                           "encrypt")
            /\ UNCHANGED <<hashed, sealed, rng>>
       ELSE CreateAppends(k, a, GiftNonce(file), 0,
                GiftBlockFor(sealed, file, k, a, Timestamp(clock)),
                GiftSealFor(file, k, a, Timestamp(clock)),
                hashed)
    /\ UNCHANGED <<mvars, edit, pending>>

VerifyDocumentSignature(k) ==
    /\ impl = "ascon"
    /\ sres' = verify_document_signature(exists, file, k, hashed, sealed)
    /\ seen' = FrameSeen("ascon", file, sres')
    /\ pre' = file
    /\ UNCHANGED <<exists, file, hashed, sealed, clock, rng, sigs, tamper, foreign>>
    /\ UNCHANGED <<mvars, edit, pending>>

VerifyGiftDocumentSignature(k) ==
    /\ impl = "gift"
    /\ sres' = verify_gift_document_signature(exists, file, k, sealed)
    /\ seen' = FrameSeen("gift", file, sres')
    /\ pre' = file
    /\ UNCHANGED <<exists, file, hashed, sealed, clock, rng, sigs, tamper, foreign>>
    /\ UNCHANGED <<mvars, edit, pending>>

\* The owner overwrites one byte of the stored file (f.seek(i); f.write(b))
Tamper(i) ==
    /\ exists
    /\ tamper = 0
    /\ foreign = NoForeign
    /\ i \in 1..Len(file)
    /\ file' = [file EXCEPT ![i] = (file[i] + 1) % 256]
    /\ tamper' = i
    /\ pre' = file
    /\ sres' = NoSigCall
    /\ seen' = NoFrame
    /\ UNCHANGED <<exists, hashed, sealed, clock, rng, sigs, foreign>>
    /\ UNCHANGED <<mvars, edit, pending>>

\* signature_data that does not follow the layout of create: a timestamp
\* length that runs past the end, an author length that runs past the end,
\* a single byte, and well-formed metadata followed by 31 bytes only
ForeignPayloads(digest) ==
    {Pack16(300) \o Utf8Encode(Timestamp(clock)),
     Pack16(26) \o Utf8Encode(Timestamp(clock)) \o Pack16(500) \o Authors[1],
     <<7>>,
     Metadata(Utf8Encode(Timestamp(clock)), Utf8Encode(Authors[1]))
       \o Slice(digest, 0, DIGEST_SIZE - 1)}

\* Another program that holds key k seals data and appends it to an unsigned
\* file, framed as create frames its block.
WriteForeignBlock(k, data) ==
    /\ exists
    /\ sigs = <<>>
    /\ tamper = 0
    /\ foreign = NoForeign
    /\ LET nonce == IF impl = "ascon" THEN RandomBytes(rng) ELSE GiftNonce(file)
           ad == IF impl = "ascon" THEN <<>> ELSE file
           enc == gift_encrypt(sealed, k, ad, nonce, data)
           body == IF impl = "ascon"
                   THEN ascon_encrypt(sealed, k, nonce, ad, data)
                   ELSE enc.ct
           block == Magic(impl) \o Pack64(Len(body)) \o nonce \o body
                      \o (IF impl = "ascon" THEN <<>> ELSE enc.tag)
       IN  /\ file' = AppendBytes(file, block)
           /\ sealed' = Learn(sealed, Sealed(k, nonce, ad, data))
           /\ foreign' = [by |-> k, data |-> data, start |-> Len(file)]
    /\ hashed' = IF impl = "ascon" THEN Learn(hashed, file) ELSE hashed
    /\ rng' = IF impl = "ascon" THEN rng + 1 ELSE rng
    /\ pre' = file
    /\ sres' = NoSigCall
    /\ seen' = NoFrame
    /\ UNCHANGED <<exists, clock, sigs, tamper>>
    /\ UNCHANGED <<mvars, edit, pending>>

Next ==
    \/ \E s \in Signers("ascon"), fault \in AsconFaults :
           create_document_signature(s.key, s.author, fault)
    \/ \E s \in Signers("gift"), fault \in GiftFaults :
           create_gift_document_signature(s.key, s.author, fault)
    \/ \E j \in 1..3 : VerifyDocumentSignature(AsconKeys[j])
    \/ \E j \in 1..3 : VerifyGiftDocumentSignature(GiftKeys[j])
    \/ \E i \in 1..Len(file) : Tamper(i)
    \/ \E data \in ForeignPayloads(ascon_hash(Learn(hashed, file), file)) :
           WriteForeignBlock(SigKeys(impl)[1], data)

Spec == Init /\ [][Next]_vars

----------------------------------------------------------------------------
\* Properties of the signing state machine (Spec)

LastSig == sigs[Len(sigs)]

\* A verify call with the key of the newest signer, on the file as signed
VerifiedAsSigned ==
    /\ sres.op = "verify"
    /\ sigs # <<>>
    /\ tamper = 0
    /\ sres.key = LastSig.key

\* C1: sign then verify round trip (Ascon).  Verifying a file with the key
\* its newest signature was created with succeeds and returns the author
\* and exactly the timestamp that the create call embedded, for every
\* document including the empty one.
C1_RoundTrip ==
    (impl = "ascon" /\ VerifiedAsSigned)
        => /\ sres.status = "ok"
           /\ sres.author = LastSig.author
           /\ sres.ts = LastSig.ts

C1_Witness ==
    /\ impl = "ascon"
    /\ VerifiedAsSigned
    /\ Len(sigs) = 1
    /\ LastSig.start = 0
    /\ sres.status = "ok"
    /\ sres.author = Authors[2]

\* C2: tamper detection (Ascon).  After one byte before the offset of the
\* newest block's magic has been changed, verifying with the newest
\* signer's key fails with "Document content has been modified".
C2_TamperDetected ==
    (/\ impl = "ascon"
     /\ sres.op = "verify"
     /\ sigs # <<>>
     /\ tamper # 0
     /\ tamper <= LastSig.start
     /\ sres.key = LastSig.key)
        => /\ sres.status = "SignatureError"
           /\ sres.msg = "Document content has been modified"

C2_Witness ==
    /\ impl = "ascon"
    /\ sres.op = "verify"
    /\ Len(sigs) = 2
    /\ tamper > sigs[1].start
    /\ tamper <= LastSig.start
    /\ sres.key = LastSig.key
    /\ sres.msg = "Document content has been modified"

\* C3: wrong key (Ascon).  Verifying a signed file with a 16-byte key other
\* than the newest signer's fails with "Signature decryption failed"; the
\* call stops at the decrypt step and returns no author or timestamp.
C3_WrongKey ==
    (/\ impl = "ascon"
     /\ sres.op = "verify"
     /\ sigs # <<>>
     /\ tamper = 0
     /\ Len(sres.key) = 16
     /\ sres.key # LastSig.key)
        => /\ sres.status = "SignatureError"
           /\ sres.msg = "Signature decryption failed"
           /\ sres.stage = "decrypt"
           /\ sres.author = <<>>
           /\ sres.ts = <<>>

C3_Witness ==
    /\ impl = "ascon"
    /\ sres.op = "verify"
    /\ Len(sigs) = 2
    /\ tamper = 0
    /\ sres.key = sigs[1].key
    /\ sres.key # LastSig.key
    /\ sres.msg = "Signature decryption failed"

\* C4: latest signer wins, in both implementations.  After two or more
\* successive create calls with different author ids, verify with the newest
\* signer's key succeeds and returns the author of the newest block.
C4_LatestSignerWins ==
    (/\ VerifiedAsSigned
     /\ Len(sigs) >= 2
     /\ LastSig.author # sigs[Len(sigs) - 1].author)
        => /\ sres.status = "ok"
           /\ sres.author = LastSig.author

\* C4 restricted to the Ascon implementation
C4_LatestSignerWinsAscon == impl = "ascon" => C4_LatestSignerWins

\* C10: append-only signing, in both implementations.  A successful create
\* leaves the bytes it read in place and appends exactly the block it
\* returns: magic, 8-byte little-endian ciphertext length, 16-byte nonce,
\* ciphertext, and in the GIFT implementation a 16-byte tag; the returned
\* length is the number of bytes appended.
C10_AppendOnly ==
    (sres.op = "create" /\ sres.status = "ok")
        => LET m == Len(Magic(impl))
               n == Unpack64(Slice(sres.block, m, m + 8))
           IN  /\ file = pre \o sres.block
               /\ sres.length = Len(file) - Len(pre)
               /\ sres.length > 0
               /\ Slice(sres.block, 0, m) = Magic(impl)
               /\ Slice(sres.block, m + 8, m + 24) = LastSig.nonce
               /\ Len(LastSig.nonce) = 16
               /\ Len(sres.block) = m + 8 + 16 + n + (IF impl = "gift" THEN 16 ELSE 0)

C10_Witness ==
    /\ sres.op = "create"
    /\ sres.status = "ok"
    /\ impl = "gift"
    /\ Len(sigs) = 2
    /\ Len(pre) > 0
    /\ file = pre \o sres.block

\* C11: no partial side effects on failure, in both implementations.  A
\* create call that fails (file missing, key of wrong length, author id too
\* long for '<H', a primitive that raises) leaves the file exactly as it
\* was, and as long as only create calls write it the file ends where the
\* newest complete block ends: no state holds part of a block.
C11_NoPartialAppend ==
    /\ (sres.op = "create" /\ sres.status # "ok")
           => (file = pre /\ sres.block = <<>>)
    /\ (tamper = 0 /\ foreign = NoForeign /\ sigs # <<>>)
           => (/\ Len(file) = LastSig.stop
               /\ \A j \in 1..Len(sigs) :
                      Slice(file, sigs[j].start, sigs[j].start + Len(Magic(impl)))
                          = Magic(impl)
               /\ \A j \in 1..(Len(sigs) - 1) : sigs[j].stop = sigs[j + 1].start)
    /\ (tamper = 0 /\ foreign = NoForeign /\ sigs = <<>>)
           => (file \in Documents(impl) \/ (~exists /\ file = <<>>))

\* a create call that failed in a primitive after one block was appended
C11_Witness ==
    /\ sres.op = "create"
    /\ sres.status \in {"SignatureError", "GiftSignatureError"}
    /\ sres.stage \in {"hash", "encrypt"}
    /\ Len(sigs) = 1
    /\ file = pre
    /\ Len(file) = LastSig.stop

\* a create call rejected for its author id
C11_WitnessAuthor ==
    /\ sres.op = "create"
    /\ sres.stage = "pack"
    /\ file = pre

\* The signature_data sealed in the j-th block of the file, as its signer
\* decrypts it
SealedIn(j) ==
    LET fr == ReadFrame("ascon", file, sigs[j].start)
    IN  ascon_decrypt(sealed, sigs[j].key, fr.nonce, <<>>, fr.ciphertext)

\* C12: cumulative signing (Ascon).  After any sequence of create calls,
\* every block of the file holds, after its metadata, the digest of all the
\* bytes before that block's magic, earlier blocks included; so after a byte
\* of an earlier block has been changed, verifying with the newest signer's
\* key fails.
C12_Cumulative ==
    /\ (impl = "ascon" /\ tamper = 0 /\ foreign = NoForeign)
           => \A j \in 1..Len(sigs) :
                  LET d == SealedIn(j)
                      meta == ParseMetadata(d.pt)
                      before == Slice(file, 0, sigs[j].start)
                  IN  /\ d.status = "ok"
                      /\ meta.ok
                      /\ Len(d.pt) = meta.pos + DIGEST_SIZE
                      /\ IndexOf(hashed, before) <= Len(hashed)
                      /\ Slice(d.pt, meta.pos, meta.pos + DIGEST_SIZE)
                             = ascon_hash(hashed, before)
    /\ (/\ sres.op = "verify"
        /\ Len(sigs) >= 2
        /\ sres.key = LastSig.key
        /\ \E j \in 1..(Len(sigs) - 1) :
               tamper > sigs[j].start /\ tamper <= sigs[j].stop)
           => sres.status \notin {"ok", "none"}

\* two blocks, the second covering the first
C12_Witness ==
    /\ impl = "ascon"
    /\ tamper = 0
    /\ Len(sigs) = 2
    /\ sigs[1].key # sigs[2].key
    /\ sigs[1].start > 0
    /\ SealedIn(2).status = "ok"
    /\ IndexOf(hashed, Slice(file, 0, sigs[2].start)) = 2

\* Length of a well-formed key: 16 bytes, or 32 hex digits
KeyLen(i) == IF i = "ascon" THEN 16 ELSE 32

\* The stages of a call at which a hash or AEAD primitive has been invoked
PrimitiveStages == {"hash", "encrypt", "decrypt", "parse", "digest", "done"}

\* C13: key length enforcement (create and verify, both implementations).
\* A call whose key does not have the required length invokes no hash or
\* AEAD primitive and does not succeed, and on an existing file create
\* rejects it with the key length error.
C13_KeyLengthEnforced ==
    (sres.op \in {"create", "verify"} /\ Len(sres.key) # KeyLen(impl))
        => /\ sres.stage \notin PrimitiveStages
           /\ sres.status # "ok"
           /\ (sres.op = "create" /\ exists)
                  => (sres.status = "ValueError" /\ sres.stage = "check")

\* C13 for the chaining modes: a key that is not 16 bytes long is rejected
\* with "Key must be 16 bytes" before the block primitive is invoked.
C13_KeyLengthEnforcedModes ==
    (/\ mres.op \in {"cbc_encrypt", "cbc_decrypt", "ofb_encrypt", "ofb_decrypt"}
     /\ Len(key) # 16)
        => /\ mres.status = "ValueError"
           /\ mres.msg = "Key must be 16 bytes"
           /\ mres.calls = 0

\* C13 for create alone
C13_KeyLengthEnforcedCreate == sres.op = "create" => C13_KeyLengthEnforced

\* The failure kind a caller can tell from the exception it catches.  The
\* catch-all of both verify functions, raise SignatureError("Verification
\* failed: " + str(e)), carries the text of the error it caught and names no
\* kind of its own.
Kind(r) ==
    IF r.status = "ok" THEN "Success"
    ELSE IF r.status = "FileNotFoundError" THEN "FileNotFound"
    ELSE IF r.status = "ValueError" THEN "InvalidKeyLength"
    ELSE IF r.msg = "File too small to contain a valid signature" THEN "TooSmall"
    ELSE IF r.msg = "No valid signature found" THEN "NoSignatureFound"
    ELSE IF r.msg \in {"Signature decryption failed",
                       "Signature verification failed"} THEN "DecryptionFailed"
    ELSE IF r.msg = "Document content has been modified" THEN "ContentModified"
    ELSE "Unclassified"

VerifyKinds ==
    {"TooSmall", "NoSignatureFound", "DecryptionFailed", "MalformedSignature",
     "ContentModified", "FileNotFound", "InvalidKeyLength"}

\* C14: error boundary (both implementations).  Every failure of a verify
\* call reaches the caller as one of the kinds TooSmall, NoSignatureFound,
\* DecryptionFailed, MalformedSignature, ContentModified, FileNotFound,
\* InvalidKeyLength, and a failure raised inside the primitive or while the
\* decrypted bytes are decoded reaches it as DecryptionFailed or
\* ContentModified.
C14_ErrorBoundary ==
    (sres.op = "verify" /\ sres.status # "ok")
        => /\ Kind(sres) \in VerifyKinds
           /\ sres.stage \in {"decrypt", "parse", "digest"}
                  => Kind(sres) \in {"DecryptionFailed", "ContentModified"}

\* What does hold at the boundary: a failed verify call raises the error
\* class of its module and nothing else.
C14_OnlySignatureError ==
    (sres.op = "verify" /\ sres.status # "ok")
        => sres.status = (IF impl = "ascon" THEN "SignatureError"
                                            ELSE "GiftSignatureError")

\* The decrypted bytes do not follow the layout of create
Malformed(i, data) ==
    \/ Len(data) < 2
    \/ LET tl == Unpack16(SubSeq(data, 1, 2))
       IN  \/ Len(data) < 2 + tl + 2
           \/ LET al == Unpack16(SubSeq(data, 2 + tl + 1, 2 + tl + 2))
              IN  \/ Len(data) < 2 + tl + 2 + al
                  \/ (i = "ascon" /\ Len(data) < 2 + tl + 2 + al + DIGEST_SIZE)

\* A verify call with the writer's key that read the block another program
\* appended
VerifiedForeign ==
    /\ sres.op = "verify"
    /\ foreign # NoForeign
    /\ sres.key = foreign.by
    /\ seen.start = foreign.start

\* C18: malformed metadata (both implementations).  When the decrypted
\* signature_data has a timestamp or author length that runs past its end,
\* or is too short for a length prefix or for the 32-byte digest, verify
\* fails while parsing; it reports neither success nor modified content.
C18_MalformedRejected ==
    (VerifiedForeign /\ Malformed(impl, foreign.data))
        => /\ sres.status \in {"SignatureError", "GiftSignatureError"}
           /\ sres.stage = "parse"
           /\ sres.msg = "Verification failed"

\* the part of C18 that holds: a payload without room for a length prefix
C18_MissingPrefixRejected ==
    (/\ VerifiedForeign
     /\ \/ Len(foreign.data) < 2
        \/ Len(foreign.data) < 2 + Unpack16(SubSeq(foreign.data, 1, 2)) + 2)
        => /\ sres.status \in {"SignatureError", "GiftSignatureError"}
           /\ sres.stage = "parse"

\* The GIFT verify returning an author id cut short by the end of the buffer
C18_TruncatedAuthorAccepted ==
    /\ impl = "gift"
    /\ VerifiedForeign
    /\ Malformed(impl, foreign.data)
    /\ sres.status = "ok"
    /\ sres.author = Authors[1]

\* C15: minimum size check (both implementations).  On a file that can be
\* read, verify fails with "File too small to contain a valid signature"
\* exactly when the file has fewer than len(MAGIC) + 8 + 16 bytes, and it
\* does so before it searches for the magic; the file a successful create
\* leaves, for the empty document too, is never that short.
C15_TooSmall ==
    /\ (sres.op = "verify" /\ exists)
           => /\ (sres.msg = "File too small to contain a valid signature")
                     <=> (Len(file) < Len(Magic(impl)) + 8 + 16)
              /\ (Len(file) < Len(Magic(impl)) + 8 + 16)
                     => (/\ sres.status \in {"SignatureError", "GiftSignatureError"}
                         /\ sres.stage = "size"
                         /\ sres.start = -1
                         /\ seen = NoFrame)
    /\ (sres.op = "create" /\ sres.status = "ok")
           => Len(file) >= Len(Magic(impl)) + 8 + 16

\* a short file that holds the magic is reported as too small
C15_Witness ==
    /\ sres.op = "verify"
    /\ exists
    /\ file = <<35>> \o Magic(impl) \o <<33>>
    /\ sres.msg = "File too small to contain a valid signature"

\* The 0-based offsets at which the magic occurs in the file
Occurrences ==
    {o \in 0..(Len(file) - Len(Magic(impl))) :
        \A j \in 1..Len(Magic(impl)) : file[o + j] = Magic(impl)[j]}

\* The bytes of the file at 0-based offsets lo .. hi - 1, as far as they exist
FileBytes(lo, hi) ==
    [j \in 1..(Min(hi, Len(file)) - Min(lo, Len(file))) |-> file[Min(lo, Len(file)) + j]]

\* C16: block location (both implementations).  On a file of at least the
\* minimum size, verify fails with "No valid signature found" exactly when
\* the magic occurs nowhere in the file; otherwise it takes the rightmost
\* occurrence, reads the 8-byte little-endian length, the 16-byte nonce and
\* that many ciphertext bytes right after it, and takes exactly the bytes
\* before the occurrence as the document content.
C16_BlockLocation ==
    (sres.op = "verify" /\ exists /\ Len(file) >= Len(Magic(impl)) + 8 + 16)
        => /\ (sres.msg = "No valid signature found") <=> (Occurrences = {})
           /\ (Occurrences = {}) => (sres.stage = "find" /\ seen = NoFrame)
           /\ (Occurrences # {})
                  => LET p == sres.start + Len(Magic(impl))
                     IN  /\ sres.start \in Occurrences
                         /\ \A o \in Occurrences : o <= sres.start
                         /\ seen.start = sres.start
                         /\ seen.doc = FileBytes(0, sres.start)
                         /\ (p + 8 <= Len(file))
                                => /\ seen.sig_len = Unpack64(FileBytes(p, p + 8))
                                   /\ seen.nonce = FileBytes(p + 8, p + 24)
                                   /\ seen.ciphertext
                                          = FileBytes(p + 24, p + 24 + seen.sig_len)

\* a verify call on a document that holds the magic, signed twice
C16_Witness ==
    /\ impl = "ascon"
    /\ sres.op = "verify"
    /\ tamper = 0
    /\ Len(sigs) = 2
    /\ Cardinality(Occurrences) = 3
    /\ sres.start = LastSig.start
    /\ seen.doc = FileBytes(0, LastSig.start)
    /\ Len(seen.nonce) = 16
    /\ Len(seen.ciphertext) = seen.sig_len

\* C21: fresh nonce per signature (both implementations).  Every create call
\* draws a new 16-byte nonce that does not depend on the document, the key
\* or the author, so no two blocks appended in a run carry the same nonce,
\* whether they sign the same document or not and whatever key signs them.
C21_FreshNonce ==
    \A a \in 1..Len(sigs) :
        /\ Len(sigs[a].nonce) = 16
        /\ \A b \in 1..Len(sigs) : a # b => sigs[a].nonce # sigs[b].nonce

\* C21 restricted to the Ascon implementation
C21_FreshNonceAscon == impl = "ascon" => C21_FreshNonce

\* The GIFT nonce is a copy of the first 16 bytes of the file that was read
C21_GiftNonceFromDocument ==
    impl = "gift"
        => \A a \in 1..Len(sigs) :
               sigs[a].nonce = GiftNonce(Slice(file, 0, sigs[a].start))
                 \/ (tamper # 0 /\ tamper <= 16)

\* two GIFT blocks made with one key that carry one nonce
C21_GiftNonceReused ==
    /\ impl = "gift"
    /\ Len(sigs) = 2
    /\ sigs[1].key = sigs[2].key
    /\ sigs[1].nonce = sigs[2].nonce
    /\ sres.op = "create"
    /\ sres.status = "ok"

\* The document a run started from: the bytes before the first block
SignedDocument == Slice(file, 0, sigs[1].start)

\* pat occurs somewhere in content
Contains(content, pat) == rfind(content, pat) # -1

\* A verify call on a file that was signed once and not changed since
VerifiedOnceSigned ==
    /\ sres.op = "verify"
    /\ Len(sigs) = 1
    /\ tamper = 0
    /\ sres.stage \in PastFind

C23_WitnessAscon ==
    /\ impl = "ascon"
    /\ VerifiedOnceSigned
    /\ Contains(SignedDocument, ASCON_MAGIC)
    /\ sres.key = LastSig.key
    /\ sres.start = LastSig.start
    /\ sres.status = "ok"

----------------------------------------------------------------------------
\* The owner's edits: an Ascon-signed file whose owner afterwards cuts the
\* newest blocks off or appends bytes of their own (SpecOwner).

\* The two callers of create whose key and author id are valid
OwnerSigners == {Signer(AsconKeys[1], Authors[1]), Signer(AsconKeys[2], Authors[2])}

\* Bytes the owner appends: a newline, the magic without its last byte, and
\* the magic itself
Trailers == {<<10>>, Slice(ASCON_MAGIC, 0, Len(ASCON_MAGIC) - 1), ASCON_MAGIC}

InitOwner ==
    /\ Init
    /\ impl = "ascon"
    /\ exists

\* f.truncate(end of the i-th block): the newer blocks are removed
Truncate(i) ==
    /\ edit = NoEdit
    /\ i \in 1..(Len(sigs) - 1)
    /\ file' = Slice(file, 0, sigs[i].stop)
    /\ sigs' = SubSeq(sigs, 1, i)
    /\ edit' = [edit EXCEPT !.removed = Len(sigs) - i]
    /\ pre' = file
    /\ sres' = NoSigCall
    /\ seen' = NoFrame
    /\ UNCHANGED <<exists, hashed, sealed, clock, rng, tamper, foreign, pending>>
    /\ UNCHANGED mvars

\* with open(filepath, 'ab') as f: f.write(t), by the owner
AppendTrailing(t) ==
    /\ sigs # <<>>
    /\ edit.trailing = <<>>
    /\ file' = AppendBytes(file, t)
    /\ edit' = [edit EXCEPT !.trailing = t]
    /\ pre' = file
    /\ sres' = NoSigCall
    /\ seen' = NoFrame
    /\ UNCHANGED <<exists, hashed, sealed, clock, rng, sigs, tamper, foreign,
                   pending>>
    /\ UNCHANGED mvars

\* A create call on a file the owner has not edited
OwnerSigns(s) ==
    /\ edit = NoEdit
    /\ create_document_signature(s.key, s.author, "none")

NextOwner ==
    \/ \E s \in OwnerSigners : OwnerSigns(s)
    \/ \E j \in 1..3 : VerifyDocumentSignature(AsconKeys[j])
    \/ \E i \in 1..MaxSigs : Truncate(i)
    \/ \E t \in Trailers : AppendTrailing(t)

SpecOwner == InitOwner /\ [][NextOwner]_vars

\* What verify_document_signature returns for key k on the first n bytes of
\* the file
VerifyPrefix(n, k) ==
    verify_document_signature(TRUE, Slice(file, 0, n), k, hashed, sealed)

\* C25: every block-boundary prefix verifies (Ascon).  After any number of
\* create calls made one after the other, the part of the file that ends
\* where the i-th block ends verifies under the i-th signer's key and
\* returns the i-th author and timestamp, for every i; a file whose newest
\* blocks were cut off therefore verifies as the earlier signer, with the
\* same outcome as if the later signatures had never been made.
C25_PrefixVerifies ==
    /\ (edit.trailing = <<>>)
           => \A i \in 1..Len(sigs) :
                  LET r == VerifyPrefix(sigs[i].stop, sigs[i].key)
                  IN  /\ r.status = "ok"
                      /\ r.author = sigs[i].author
                      /\ r.ts = sigs[i].ts
                      /\ r.start = sigs[i].start
    /\ (sres.op = "verify" /\ edit.removed > 0 /\ edit.trailing = <<>>
          /\ sres.key = LastSig.key)
           => /\ Len(file) = LastSig.stop
              /\ sres.status = "ok"
              /\ sres.author = LastSig.author
              /\ sres.ts = LastSig.ts

\* a file signed by two authors, the second block cut off, verified with
\* the first signer's key
C25_Witness ==
    /\ sres.op = "verify"
    /\ edit.removed = 1
    /\ edit.trailing = <<>>
    /\ Len(sigs) = 1
    /\ Len(pre) = Len(file)
    /\ LastSig.author = Authors[1]
    /\ sres.key = AsconKeys[1]
    /\ sres.status = "ok"
    /\ sres.author = Authors[1]

\* The appended bytes created no occurrence of the magic: none starts after
\* the start of the newest block
NoNewMagic == \A o \in Occurrences : o <= LastSig.start

\* C26: trailing bytes are unauthenticated (Ascon).  After bytes that create
\* no new occurrence of the magic were appended to a signed file, verify
\* returns what it returns on the file without them, for every key: with
\* the newest signer's key it succeeds with the same author and timestamp.
\* The frame it reads ends where the newest block ends; no byte after
\* sig_start + len(MAGIC) + 8 + 16 + length is read.
C26_TrailingIgnored ==
    (sres.op = "verify" /\ sigs # <<>> /\ edit.trailing # <<>> /\ NoNewMagic)
        => /\ sres = VerifyPrefix(LastSig.stop, sres.key)
           /\ Len(file) > LastSig.stop
           /\ seen.start = LastSig.start
           /\ seen.start + Len(ASCON_MAGIC) + 8 + 16 + seen.sig_len = LastSig.stop
           /\ seen = ReadFrame("ascon", Slice(file, 0, LastSig.stop), LastSig.start)
           /\ (sres.key = LastSig.key)
                  => /\ sres.status = "ok"
                     /\ sres.author = LastSig.author
                     /\ sres.ts = LastSig.ts

\* a signed file with "ASCON_SI" appended, verified with the signer's key
C26_Witness ==
    /\ sres.op = "verify"
    /\ sigs # <<>>
    /\ edit.trailing = Slice(ASCON_MAGIC, 0, Len(ASCON_MAGIC) - 1)
    /\ NoNewMagic
    /\ sres.key = LastSig.key
    /\ sres.status = "ok"
    /\ Len(file) = LastSig.stop + Len(ASCON_MAGIC) - 1

\* appended bytes that are the magic are taken for a block: verify fails
C26_TrailingMagicSelected ==
    (sres.op = "verify" /\ sigs # <<>> /\ edit.trailing = ASCON_MAGIC)
        => /\ sres.start = LastSig.stop
           /\ sres.status = "SignatureError"
           /\ sres.msg = "Verification failed"

----------------------------------------------------------------------------
\* Concurrent signing: two callers run create on one file with no lock
\* (SpecRace).  A create call touches the file twice: it reads it (open
\* 'rb', f.read()) and later appends its block (open 'ab', one f.write()
\* of the whole block, which the operating system places at the end of the
\* file as one piece).  Everything between the two works on the caller's
\* own buffers, so a call is two steps: ReadDocument and SealAndAppend.
\* struct.pack of the author id length depends on the caller's argument
\* only; its failure is reported with the first step.

\* a create call that reads the file again when it appends
ContentReadAtAppend(p) == file

\* document_content, as the caller read it
ContentRead(p) == p.content

InitRace ==
    /\ Init
    /\ exists

\* create, from its entry to the end of f.read(); a call whose author id
\* does not fit '<H' ends here, having written nothing
ReadDocument(c, s) ==
    /\ ~pending[c].reading
    /\ Len(sigs) + Cardinality({d \in Callers : pending[d].reading}) < MaxSigs
    /\ IF ~exists
       THEN /\ CreateRaises(s.key, "FileNotFoundError", "Document not found")
            /\ UNCHANGED pending
       ELSE IF Len(s.key) # KeyLen(impl)
       THEN /\ CreateRaises(s.key, "ValueError",
                            IF impl = "ascon"
                            THEN "Author key must be exactly 16 bytes"
                            ELSE "Author key must be exactly 32 hex characters (16 bytes)")
            /\ UNCHANGED pending
       ELSE IF ~AuthorFits(s.author)
       THEN /\ CreateFails(s.key,
                           IF impl = "ascon" THEN "SignatureError"
                           ELSE "GiftSignatureError",
                           "Failed to create signature", "pack")
            /\ UNCHANGED <<hashed, sealed, rng, pending>>
       ELSE /\ pending' = [pending EXCEPT ![c] =
                              [key |-> s.key, author |-> s.author, content |-> file,
                               reading |-> TRUE, at |-> -1]]
            /\ UNCHANGED <<exists, file, hashed, sealed, clock, rng, sigs, tamper,
                           pre, sres, seen, foreign>>
    /\ UNCHANGED <<mvars, edit>>

\* create, from the timestamp to the end of the append
SealAndAppend(c) ==
    /\ pending[c].reading
    /\ LET p == pending[c]
           document_content == ContentRead(p)
           now == Timestamp(clock)
       IN  /\ IF impl = "ascon"
              THEN LET nonce == RandomBytes(rng)
                   IN  CreateAppends(p.key, p.author, nonce, 1,
                           AsconBlockFor(hashed, sealed, document_content,
                                         p.key, p.author, nonce, now),
                           AsconSealFor(hashed, document_content, p.key,
                                        p.author, nonce, now),
                           Learn(hashed, SignedContent(document_content)))
              ELSE CreateAppends(p.key, p.author, GiftNonce(document_content), 0,
                       GiftBlockFor(sealed, document_content, p.key, p.author, now),
                       GiftSealFor(document_content, p.key, p.author, now),
                       hashed)
           /\ pending' = [pending EXCEPT ![c].reading = FALSE,
                                         ![c].at = Len(file)]
    /\ UNCHANGED <<mvars, edit>>

NextRace ==
    \/ \E c \in Callers, s \in Signers(impl) : ReadDocument(c, s)
    \/ \E c \in Callers : SealAndAppend(c)
    \/ \E j \in 1..3 : VerifyDocumentSignature(AsconKeys[j])
    \/ \E j \in 1..3 : VerifyGiftDocumentSignature(GiftKeys[j])

SpecRace == InitRace /\ [][NextRace]_vars

\* Caller c has appended a block
Appended(c) == ~pending[c].reading /\ pending[c].at >= 0

\* C22: unserialized concurrent signing (both implementations).  The read
\* step and the append step of two callers interleave in every order.  A
\* step that changes the file is the append step of one caller: it leaves
\* every byte that was there in place and adds exactly that caller's whole
\* block at the end, so that block is the last one of the file.  At all
\* times the file is the document followed by whole blocks, one after
\* the other in the order of the append steps.
C22_AppendRace ==
    /\ [](/\ \A j \in 1..Len(sigs) :
                 /\ sigs[j].start = IF j = 1 THEN Len(SignedDocument)
                                    ELSE sigs[j - 1].stop
                 /\ Slice(file, sigs[j].start, sigs[j].start + Len(Magic(impl)))
                        = Magic(impl)
          /\ sigs # <<>> => LastSig.stop = Len(file))
    /\ [][(file' # file)
            => \E c \in Callers :
                   /\ pending[c].reading
                   /\ Appended(c)'
                   /\ pending'[c].at = Len(file)
                   /\ sres'.op = "create"
                   /\ sres'.status = "ok"
                   /\ sres'.key = pending[c].key
                   /\ file' = file \o sres'.block
                   /\ sigs' = Append(sigs, LastSig')
                   /\ LastSig'.start = Len(file)
                   /\ LastSig'.stop = Len(file')
                   /\ LastSig'.key = pending[c].key
                   /\ LastSig'.author = pending[c].author]_vars

\* both callers read the unsigned document; caller 2 appended first, then
\* caller 1, whose block is the last one
C22_Witness ==
    /\ Appended(1)
    /\ Appended(2)
    /\ pending[1].content = pending[2].content
    /\ pending[1].content = SignedDocument
    /\ pending[2].at = Len(SignedDocument)
    /\ pending[1].at = sigs[1].stop
    /\ Len(sigs) = 2
    /\ LastSig.key = pending[1].key
    /\ LastSig.key # sigs[1].key
    /\ LastSig.stop = Len(file)
    /\ sres.op = "create"

\* Callers a and b read the same content, a appended first, b right after,
\* and b's block is the newest
RacedPair(a, b) ==
    /\ a # b
    /\ Appended(a)
    /\ Appended(b)
    /\ pending[a].content = pending[b].content
    /\ pending[a].at = Len(pending[a].content)
    /\ pending[a].at < pending[b].at
    /\ Len(sigs) >= 2
    /\ LastSig.start = pending[b].at

\* C24: lost cumulative invariant under interleaving (Ascon).  When two
\* callers both read the content D before either appends, the file ends as
\* D, the block of the first appender, the block of the second; the digest
\* sealed in the second block is the digest of D and not that of the bytes
\* before the block, so verify with the second appender's key fails with
\* "Document content has been modified" although no byte was changed, and
\* verify succeeds with no key.
C24_LostCumulative ==
    (impl = "ascon" /\ \E a, b \in Callers : RacedPair(a, b))
        => LET n == Len(sigs)
               D == Slice(file, 0, sigs[n - 1].start)
               before == Slice(file, 0, LastSig.start)
               d == SealedIn(n)
               meta == ParseMetadata(d.pt)
               stored == Slice(d.pt, meta.pos, meta.pos + DIGEST_SIZE)
           IN  /\ sigs[n - 1].stop = LastSig.start
               /\ LastSig.stop = Len(file)
               /\ \A c \in Callers : pending[c].content = D
               /\ d.status = "ok"
               /\ meta.ok
               /\ stored = ascon_hash(hashed, D)
               /\ stored # ascon_hash(hashed, before)
               /\ sres.op = "verify"
                      => /\ sres.status = "SignatureError"
                         /\ (sres.key = LastSig.key)
                                => sres.msg = "Document content has been modified"
                         /\ (sres.key = sigs[n - 1].key /\ sres.key # LastSig.key)
                                => sres.msg = "Signature decryption failed"

\* two authors raced on an unsigned document; verify with the key of the
\* second appender reports a modified document
C24_Witness ==
    /\ impl = "ascon"
    /\ RacedPair(1, 2)
    /\ Len(sigs) = 2
    /\ LastSig.key # sigs[1].key
    /\ sres.op = "verify"
    /\ sres.key = LastSig.key
    /\ sres.msg = "Document content has been modified"

\* the GIFT implementation after the same race: verify fails as well
C24_LostCumulativeGift ==
    (impl = "gift" /\ sres.op = "verify" /\ \E a, b \in Callers : RacedPair(a, b))
        => sres.status = "GiftSignatureError"

====
